---- MODULE Spec2Model ----
(***************************************************************************)
(* Model of src/main.py: the tweet -> Malay caption -> Facebook pipeline   *)
(* (fetch_and_post_tweets) with its ledger results.json, the Gemini        *)
(* translator's retry loop, the three Facebook publish operations and the  *)
(* temporary media files.                                                  *)
(*                                                                         *)
(* Abstractions.  A text is a sequence of tokens: "w" a word, "m" an       *)
(* @mention, "u" a URL, "s" a whitespace character.  A caption is a        *)
(* sequence of tokens too; "" is <<>>.  A temp file is the tuple           *)
(* <<extension, tweet id, index>>.  Every HTTP call is an input drawn from *)
(* its possible outcomes.  tweet_url and date_posted of a ledger entry are *)
(* not modelled (tweet_url is a function of the id).                       *)
(***************************************************************************)
EXTENDS Integers, Sequences, FiniteSets, TLC

\* ---------------------------------------------------------------- bounds
MaxFetched == 3     \* tweets fetched in total, over all the runs considered

\* ------------------------------------------------------ program constants
Retries == 3        \* translate_to_malay(retries=3)

FailureMarker == <<"Translation failed">>
NoPath == <<>>      \* video_path = None

\* ---------------------------------------------------------------- tweets
\* The tweets the source can return.  A tweet's content is fixed by its id.
Catalog ==
  { [id |-> 1, raw_text |-> <<"w", "s", "u">>, images |-> <<>>,         video |-> FALSE],
    [id |-> 2, raw_text |-> <<"m", "s", "u">>, images |-> <<"c">>,      video |-> TRUE],
    [id |-> 3, raw_text |-> <<"m", "s", "w">>, images |-> <<"a", "b">>, video |-> FALSE],
    [id |-> 4, raw_text |-> <<"s", "s">>,      images |-> <<>>,         video |-> FALSE] }

Ids == {t.id : t \in Catalog}

SeqsUpTo(S, n) == UNION {[1..k -> S] : k \in 0..n}

\* fetch_tweets_rapidapi: any list of tweets (an id may repeat: a pinned
\* entry is appended besides the timeline entries), [] on a fetch error.
FetchOutputs(n) == SeqsUpTo(Catalog, n)

\* ----------------------------------------------------------------- ledger
NoFile == [state |-> "absent", entries |-> <<>>]
OkFile(es) == [state |-> "ok", entries |-> es]
CorruptFile == [state |-> "corrupt", entries |-> <<>>]
\* a file that parses as JSON but not to a list (an object, null, a number)
NotListFile == [state |-> "notlist", entries |-> <<>>]

EntryIds(es) == {es[i].id : i \in 1..Len(es)}

\* load_posted_ids: the ids of the entries, set() when open/json.load raises
LoadPostedIds(f) == IF f.state = "ok" THEN EntryIds(f.entries) ELSE {}

\* a commit that writes the new entries only
LogResultOverwrite(f, new_entries) == [state |-> "ok", entries |-> new_entries]

\* log_result: existing = parsed file, [] when open/json.load raises;
\* the file is rewritten with existing + new_entries
ReadExisting(f) == IF f.state = "ok" THEN f.entries ELSE <<>>
LogResult(f, new_entries) == OkFile(ReadExisting(f) \o new_entries)

\* ------------------------------------------------------------- translator
IsSpace(x) == x = "s"

\* line 68: not text or not text.strip()
IsBlankInput(text) == \A i \in 1..Len(text) : IsSpace(text[i])

RECURSIVE Collapse(_)
Collapse(s) ==
  IF Len(s) <= 1 THEN s
  ELSE IF IsSpace(s[1]) /\ IsSpace(s[2]) THEN Collapse(Tail(s))
  ELSE <<s[1]>> \o Collapse(Tail(s))

RECURSIVE LStrip(_)
LStrip(s) == IF s # <<>> /\ IsSpace(s[1]) THEN LStrip(Tail(s)) ELSE s

RECURSIVE RStrip(_)
RStrip(s) ==
  IF s # <<>> /\ IsSpace(s[Len(s)]) THEN RStrip(SubSeq(s, 1, Len(s) - 1)) ELSE s

IsNoise(x) == x \in {"m", "u"}

\* _clean_text: drop @mentions and URLs, collapse whitespace, strip
CleanText(text) ==
  RStrip(LStrip(Collapse(SelectSeq(text, LAMBDA x : ~IsNoise(x)))))

\* one generate_content call: text, empty output, or an exception
ServiceOutcomes == {"text", "empty", "raise"}
ServiceText(cleaned) == <<"ms">> \o cleaned

\* a check that forgets the failure marker
TranslationRejectedEmptyOnly(translated) == translated = <<>>

\* line 310: not translated or translated == "Translation failed"
TranslationRejected(translated) ==
  translated = <<>> \/ translated = FailureMarker

\* ------------------------------------------------------- Facebook posting
HttpOutcomes == {"200", "err", "raise"}            \* status 200, other status, exception
UploadOutcomes == {"200", "noid", "err", "raise"}  \* "noid": 200 whose body has no id

\* one request to the Graph API: endpoint, media sent or attached, caption, outcome
Req(ep, media, caption, out) ==
  [ep |-> ep, media |-> media, caption |-> caption, out |-> out]

\* one publish operation: its arguments, the requests it made, what the
\* post carries, and its result ("true", "false", or "raise")
Call(op, caption, paths, attached, ret, reqs) ==
  [op |-> op, caption |-> caption, paths |-> paths, attached |-> attached,
   ret |-> ret, reqs |-> reqs]

Endpoint(op) == IF op = "video" THEN "videos" ELSE "feed"

\* the final request of an operation, after the requests in before
PostResult(op, caption, paths, attached, post, before) ==
  Call(op, caption, paths,
       IF post = "200" THEN attached ELSE <<>>,
       IF post = "200" THEN "true" ELSE IF post = "err" THEN "false" ELSE "raise",
       Append(before, Req(Endpoint(op), attached, caption, post)))

\* post_text_only_to_fb: token is FALSE when get_fb_token returns None
PostTextOnlyToFb(caption, token, post) ==
  IF ~token THEN Call("text", caption, <<>>, <<>>, "false", <<>>)
  ELSE PostResult("text", caption, <<>>, <<>>, post, <<>>)

\* post_video_to_fb
PostVideoToFb(video_path, caption, files, token, post) ==
  IF ~token \/ video_path \notin files
  THEN Call("video", caption, <<video_path>>, <<>>, "false", <<>>)
  ELSE PostResult("video", caption, <<video_path>>, <<video_path>>, post, <<>>)

Indices(n) == [j \in 1..n |-> j]

\* post_photos_to_fb: up[j] is the outcome of uploading image_paths[j]
PostPhotosToFb(image_paths, caption, files, token, up, post) ==
  LET n == Len(image_paths)
      present(j) == image_paths[j] \in files
      reached(j) == \A i \in 1..(j - 1) : present(i) => up[i] # "raise"
      sent == SelectSeq(Indices(n), LAMBDA j : present(j) /\ reached(j))
      uploads == [k \in 1..Len(sent) |->
                    Req("photos", <<image_paths[sent[k]]>>, <<>>, up[sent[k]])]
      staged == SelectSeq(Indices(n), LAMBDA j : present(j) /\ up[j] = "200")
      media_ids == [k \in 1..Len(staged) |-> image_paths[staged[k]]]
  IN IF ~token THEN Call("photos", caption, image_paths, <<>>, "false", <<>>)
     ELSE IF \E j \in 1..n : present(j) /\ up[j] = "raise"
          THEN Call("photos", caption, image_paths, <<>>, "raise", uploads)
     ELSE IF media_ids = <<>>
          THEN Call("photos", caption, image_paths, <<>>, "false", uploads)
     ELSE PostResult("photos", caption, image_paths, media_ids, post, uploads)

\* ---------------------------------------------------------- the try block
VideoFile(id) == <<"mp4", id, 0>>
ImageFile(id, j) == <<"jpg", id, j>>

\* one download: "ok" writes the file, "http_error" raises before the file
\* is opened, "write_error" raises after open(path, "wb") created it
DownloadOutcomes == {"ok", "http_error", "write_error"}

Created(d) == d \in {"ok", "write_error"}

Outcome(files, video_path, img_paths, dl, calls, ret) ==
  [files |-> files, video_path |-> video_path, img_paths |-> img_paths,
   dlCalls |-> Len(dl), dlLog |-> dl, calls |-> calls, ret |-> ret]

\* lines 319-326: the video is downloaded with no handler of its own, then posted
VideoBranch(tweet, translated, files, d, token, post) ==
  LET vp == VideoFile(tweet.id)
      after == IF Created(d) THEN files \cup {vp} ELSE files
      c == PostVideoToFb(vp, translated, after, token, post)
  IN IF d # "ok" THEN Outcome(after, vp, <<>>, <<d>>, <<>>, "raise")
     ELSE Outcome(after, vp, <<>>, <<d>>, <<c>>, c.ret)

\* a download loop that gives up at the first failed image
DownloadedUntilFailure(dl) ==
  SelectSeq(Indices(Len(dl)), LAMBDA j : \A i \in 1..j : dl[i] = "ok")

\* the images whose download succeeded, in order (line 337)
Downloaded(dl) == SelectSeq(Indices(Len(dl)), LAMBDA j : dl[j] = "ok")

\* lines 328-345: each image is downloaded under its own handler;
\* up[k] is the outcome of uploading img_paths[k]
ImagesBranch(tweet, translated, files, dl, token, up, post) ==
  LET n == Len(tweet.images)
      got == Downloaded(dl)
      img_paths == [k \in 1..Len(got) |-> ImageFile(tweet.id, got[k] - 1)]
      after == files \cup {ImageFile(tweet.id, j - 1) : j \in {i \in 1..n : Created(dl[i])}}
      c == IF img_paths # <<>>
           THEN PostPhotosToFb(img_paths, translated, after, token, up, post)
           ELSE PostTextOnlyToFb(translated, token, post)
  IN Outcome(after, NoPath, img_paths, dl, <<c>>, c.ret)

\* lines 347-348
TextBranch(tweet, translated, files, token, post) ==
  LET c == PostTextOnlyToFb(translated, token, post)
  IN Outcome(files, NoPath, <<>>, <<>>, <<c>>, c.ret)

\* a branch order that looks at the images first
MediaModePhotosFirst(tweet) ==
  IF tweet.images # <<>> THEN "photos" ELSE IF tweet.video THEN "video" ELSE "text"

\* lines 319, 328, 347: which branch the item takes
MediaMode(tweet) ==
  IF tweet.video THEN "video" ELSE IF tweet.images # <<>> THEN "photos" ELSE "text"

\* lines 351-360: the entry staged for a published tweet
Entry(tweet, translated) ==
  [id |-> tweet.id, original_text |-> tweet.raw_text,
   translated_caption |-> translated,
   images |-> tweet.images, video |-> tweet.video]

\* a duplicate check that never matches
IsDuplicateNever(tweet, posted) == FALSE

\* line 304
IsDuplicate(tweet, posted) == tweet.id \in posted

\* ------------------------------------------------------------------ state
VARIABLES
  file,        \* results.json
  disk,        \* temp files that exist in the working directory
  pubCount,    \* per tweet id, how many publish operations returned True (history)
  pubRun,      \* ids of the tweets published by this run, in order (history)
  fetched,     \* tweets fetched so far, over all runs (history)
  pc,          \* position of the run: idle, loop, translate, process, finally,
               \* done, aborted (an exception left the run), crashed,
               \* ledger_error (log_result raised)
  tweets,      \* the fetcher output of this run
  idx,         \* 1-based position of the for loop in tweets
  posted_ids,  \* the set loaded at line 294
  startIds,    \* ids stored in results.json when the run started (history)
  results,     \* entries staged by this run
  report,      \* -1 nothing reported yet, 0 NOTHING TO POST, k "k entries added"
  taken,       \* tweets this run has taken from the list (history)
  cur,         \* the tweet taken most recently from the list
  status,      \* its state: none, fetched, dup, trfail, published, failed, raised
  attempts,    \* outcomes of the generate_content calls made for it
  delays,      \* exponents i+1 of the backoff sleeps made for it
  translated,  \* what translate_to_malay returned for it
  video_path,  \* line 315
  img_paths,   \* line 316
  dlCalls,     \* media downloads started for it
  dlLog,       \* their outcomes, in order
  calls        \* publish operations called for it, with their results

vars == <<file, disk, pubCount, pubRun, fetched, pc, tweets, idx, posted_ids, startIds,
          results, report, taken, cur, status, attempts, delays, translated,
          video_path, img_paths, dlCalls, dlLog,
                 calls>>

runVars == <<tweets, posted_ids, startIds, fetched>>
itemVars == <<cur, status, attempts, delays, translated, video_path, img_paths,
              dlCalls, dlLog, calls>>

NoTweet == [id |-> 0, raw_text |-> <<>>, images |-> <<>>, video |-> FALSE]
Pending == <<"pending">>

InitWith(f) ==
  /\ file = f
  /\ disk = {}
  /\ pubCount = [i \in Ids |-> 0]
  /\ pubRun = <<>>
  /\ fetched = 0
  /\ pc = "idle"
  /\ tweets = <<>>
  /\ idx = 1
  /\ posted_ids = {}
  /\ startIds = {}
  /\ results = <<>>
  /\ report = -1
  /\ taken = 0
  /\ cur = NoTweet
  /\ status = "none"
  /\ attempts = <<>>
  /\ delays = <<>>
  /\ translated = Pending
  /\ video_path = NoPath
  /\ img_paths = <<>>
  /\ dlCalls = 0
  /\ dlLog = <<>>
  /\ calls = <<>>

Init == InitWith(NoFile)

ResetItem(tweet) ==
  /\ cur' = tweet
  /\ attempts' = <<>>
  /\ delays' = <<>>
  /\ translated' = Pending
  /\ video_path' = NoPath
  /\ img_paths' = <<>>
  /\ dlCalls' = 0
  /\ dlLog' = <<>>
  /\ calls' = <<>>

\* lines 285-301: configuration present, ledger loaded once, tweets fetched
StartRun ==
  /\ pc \in {"idle", "done", "aborted", "crashed", "ledger_error"}
  /\ posted_ids' = LoadPostedIds(file)
  /\ startIds' = EntryIds(file.entries)
  /\ \E out \in FetchOutputs(MaxFetched - fetched) : tweets' = out
  /\ fetched' = fetched + Len(tweets')
  /\ idx' = 1
  /\ results' = <<>>
  /\ pubRun' = <<>>
  /\ report' = -1
  /\ taken' = 0
  /\ pc' = "loop"
  /\ status' = "none"
  /\ ResetItem(NoTweet)
  /\ UNCHANGED <<file, disk, pubCount>>

\* lines 303-306: next tweet of the list, skipped when already posted
TakeTweet ==
  /\ pc = "loop"
  /\ idx <= Len(tweets)
  /\ ResetItem(tweets[idx])
  /\ IF IsDuplicate(tweets[idx], posted_ids)
     THEN /\ status' = "dup"
          /\ idx' = idx + 1
          /\ pc' = "loop"
     ELSE /\ status' = "fetched"
          /\ idx' = idx
          /\ pc' = "translate"
  /\ taken' = taken + 1
  /\ UNCHANGED <<file, disk, pubCount, pubRun, runVars, results, report>>

\* lines 309-312: translate_to_malay returned t
AfterTranslate(t) ==
  /\ translated' = t
  /\ IF TranslationRejected(t)
     THEN /\ status' = "trfail"
          /\ idx' = idx + 1
          /\ pc' = "loop"
     ELSE /\ status' = status
          /\ idx' = idx
          /\ pc' = "process"

\* lines 68-69: blank input returns "" without a service call
TranslateBlank ==
  /\ pc = "translate"
  /\ attempts = <<>>
  /\ IsBlankInput(cur.raw_text)
  /\ AfterTranslate(<<>>)
  /\ UNCHANGED <<taken, file, disk, pubCount, pubRun, runVars, results, report, cur, attempts,
                 delays, video_path, img_paths, dlCalls, dlLog,
                 calls>>

\* lines 84-97: one pass of the retry loop
TranslateAttempt ==
  /\ pc = "translate"
  /\ ~IsBlankInput(cur.raw_text)
  /\ Len(attempts) < Retries
  /\ \E o \in ServiceOutcomes :
       /\ attempts' = Append(attempts, o)
       /\ IF o = "text"
          THEN /\ AfterTranslate(ServiceText(CleanText(cur.raw_text)))
               /\ delays' = delays
          ELSE /\ delays' = IF o = "raise" THEN Append(delays, Len(attempts) + 1)
                            ELSE delays
               /\ UNCHANGED <<translated, status, idx, pc>>
  /\ UNCHANGED <<taken, file, disk, pubCount, pubRun, runVars, results, report, cur,
                 video_path, img_paths, dlCalls, dlLog,
                 calls>>

\* a retry loop that stops one attempt late
TranslateGiveUpLate ==
  /\ pc = "translate"
  /\ ~IsBlankInput(cur.raw_text)
  /\ Len(attempts) >= Retries
  /\ IF Len(attempts) = Retries
     THEN /\ attempts' = Append(attempts, "empty")
          /\ UNCHANGED <<translated, status, idx, pc>>
     ELSE /\ attempts' = attempts
          /\ AfterTranslate(FailureMarker)
  /\ UNCHANGED <<taken, file, disk, pubCount, pubRun, runVars, results, report, cur,
                 delays, video_path, img_paths, dlCalls, dlLog,
                 calls>>

\* lines 98-99: the loop is exhausted
TranslateGiveUp ==
  /\ pc = "translate"
  /\ ~IsBlankInput(cur.raw_text)
  /\ Len(attempts) >= Retries
  /\ AfterTranslate(FailureMarker)
  /\ UNCHANGED <<taken, file, disk, pubCount, pubRun, runVars, results, report, cur, attempts,
                 delays, video_path, img_paths, dlCalls, dlLog,
                 calls>>

\* an entry staged whatever the publish operation returned
ApplyAlwaysStage(o) ==
  /\ disk' = o.files
  /\ video_path' = o.video_path
  /\ img_paths' = o.img_paths
  /\ dlCalls' = o.dlCalls
  /\ dlLog' = o.dlLog
  /\ calls' = o.calls
  /\ status' = IF o.ret = "true" THEN "published"
               ELSE IF o.ret = "false" THEN "failed" ELSE "raised"
  /\ results' = IF o.ret # "raise" THEN Append(results, Entry(cur, translated))
                ELSE results
  /\ pubCount' = IF o.ret = "true"
                 THEN [pubCount EXCEPT ![cur.id] = @ + 1] ELSE pubCount
  /\ pubRun' = IF o.ret = "true" THEN Append(pubRun, cur.id) ELSE pubRun

\* lines 350-363 applied to the outcome of the branch taken
Apply(o) ==
  /\ disk' = o.files
  /\ video_path' = o.video_path
  /\ img_paths' = o.img_paths
  /\ dlCalls' = o.dlCalls
  /\ dlLog' = o.dlLog
  /\ calls' = o.calls
  /\ status' = IF o.ret = "true" THEN "published"
               ELSE IF o.ret = "false" THEN "failed" ELSE "raised"
  /\ results' = IF o.ret = "true" THEN Append(results, Entry(cur, translated))
                ELSE results
  /\ pubCount' = IF o.ret = "true"
                 THEN [pubCount EXCEPT ![cur.id] = @ + 1] ELSE pubCount
  /\ pubRun' = IF o.ret = "true" THEN Append(pubRun, cur.id) ELSE pubRun

\* lines 318-363: the try block of one tweet, its downloads drawn from D;
\* with full the file system fails at least one write
ProcessWith(D, full) ==
  /\ pc = "process"
  /\ \E token \in BOOLEAN, post \in HttpOutcomes :
       \/ /\ MediaMode(cur) = "video"
          /\ \E d \in D :
               /\ full => d = "write_error"
               /\ Apply(VideoBranch(cur, translated, disk, d, token, post))
       \/ /\ MediaMode(cur) = "photos"
          /\ \E dl \in [1..Len(cur.images) -> D] :
               /\ full => \E j \in 1..Len(dl) : dl[j] = "write_error"
               /\ \E up \in [1..Len(Downloaded(dl)) -> UploadOutcomes] :
                    Apply(ImagesBranch(cur, translated, disk, dl, token, up, post))
       \/ /\ MediaMode(cur) = "text"
          /\ ~full
          /\ Apply(TextBranch(cur, translated, disk, token, post))
  /\ pc' = "finally"
  /\ UNCHANGED <<taken, file, runVars, idx, report, cur, attempts, delays, translated>>

Process == ProcessWith({"ok", "http_error"}, FALSE)

\* lines 367-377: the files the finally clause tries to remove
Removable(files) ==
  {p \in files : p = video_path \/ \E k \in 1..Len(img_paths) : img_paths[k] = p}

\* a loop that does not move on after an item
FinallyNoAdvance ==
  /\ pc = "finally"
  /\ disk' = disk \ Removable(disk)
  /\ IF status = "raised" THEN pc' = "aborted" ELSE pc' = "loop"
  /\ idx' = idx
  /\ UNCHANGED <<taken, file, pubCount, pubRun, runVars, results, report,
                 itemVars>>

\* lines 365-380: cleanup, then the exception (if any) leaves the run
\* (os.remove itself is taken to succeed on an existing file)
Finally ==
  /\ pc = "finally"
  /\ disk' = disk \ Removable(disk)
  /\ IF status = "raised"
     THEN /\ pc' = "aborted"
          /\ idx' = idx
     ELSE /\ pc' = "loop"
          /\ idx' = idx + 1
  /\ UNCHANGED <<taken, file, pubCount, pubRun, runVars, results, report, itemVars>>

\* lines 382-386: batch commit and report
Commit ==
  /\ pc = "loop"
  /\ idx > Len(tweets)
  /\ results # <<>> => file.state # "notlist"
  /\ file' = IF results # <<>> THEN LogResult(file, results) ELSE file
  /\ report' = Len(results)
  /\ pc' = "done"
  /\ UNCHANGED <<taken, disk, pubCount, pubRun, runVars, idx, results, itemVars>>

Next ==
  \/ StartRun
  \/ TakeTweet
  \/ TranslateBlank
  \/ TranslateAttempt
  \/ TranslateGiveUp
  \/ Process
  \/ Finally
  \/ Commit

Spec == Init /\ [][Next]_vars

\* a started run takes its next step: the interpreter runs the function on,
\* and every external call returns or raises
RunStep ==
  \/ TakeTweet
  \/ TranslateBlank
  \/ TranslateAttempt
  \/ TranslateGiveUp
  \/ Process
  \/ Finally
  \/ Commit

SpecLive == Init /\ [][Next]_vars /\ WF_vars(RunStep)

\* ------------------------------------------------ faults of the file system
\* a write to a temp file raises (disk full) after open() created the file
ProcessWriteError == ProcessWith(DownloadOutcomes, TRUE)

\* log_result when open/json.load raises on a file that holds entries
\* (lines 37-38: existing = []), the write then replaces the file
CommitReadError ==
  /\ pc = "loop"
  /\ idx > Len(tweets)
  /\ results # <<>>
  /\ file.state = "ok"
  /\ file' = OkFile(results)
  /\ report' = Len(results)
  /\ pc' = "done"
  /\ UNCHANGED <<taken, disk, pubCount, pubRun, runVars, idx, results, itemVars>>

\* log_result interrupted (process killed, or json.dump/write raising) after
\* open(RESULT_FILE, "w") truncated the file: what is left does not parse
CommitCrash ==
  /\ pc = "loop"
  /\ idx > Len(tweets)
  /\ results # <<>>
  /\ file' = CorruptFile
  /\ pc' = "crashed"
  /\ UNCHANGED <<taken, disk, pubCount, pubRun, runVars, idx, results, report, itemVars>>

\* log_result on a file that parses but holds no list: json.load succeeds,
\* open(RESULT_FILE, "w") truncates the file, then existing + new_entries
\* raises TypeError (line 40)
CommitTypeError ==
  /\ pc = "loop"
  /\ idx > Len(tweets)
  /\ results # <<>>
  /\ file.state = "notlist"
  /\ file' = CorruptFile
  /\ pc' = "ledger_error"
  /\ UNCHANGED <<taken, disk, pubCount, pubRun, runVars, idx, results, report, itemVars>>

NextFault ==
  \/ Next
  \/ ProcessWriteError
  \/ CommitReadError
  \/ CommitCrash

SpecFault == Init /\ [][NextFault]_vars

\* ------------------------------- a results.json that the program did not write
InitLedger == \E f \in {CorruptFile, NotListFile} : InitWith(f)

NextLedger ==
  \/ Next
  \/ CommitTypeError

SpecLedger == InitLedger /\ [][NextLedger]_vars

\* ================================================================ claims
IsPrefix(a, b) == Len(a) <= Len(b) /\ SubSeq(b, 1, Len(a)) = a

Finished == status \in {"published", "failed", "raised"}

\* C1: over any sequence of runs none of which is killed from outside, every
\* tweet id is published successfully at most once.
C1_PublishedAtMostOnce == \A i \in Ids : pubCount[i] <= 1

\* C2: a fetched tweet whose id is in the ledger when the run starts gets no
\* translate call, no media download and no publish call, stages no entry,
\* and ends as Skipped(duplicate).
C2_LedgerItemsSkipped ==
  /\ (status # "none" /\ cur.id \in startIds) =>
       /\ status = "dup"
       /\ attempts = <<>>
       /\ translated = Pending
       /\ dlCalls = 0
       /\ calls = <<>>
       /\ pc \in {"loop", "done"}
       /\ idx >= 2 /\ tweets[idx - 1] = cur
  /\ \A k \in 1..Len(results) : results[k].id \notin startIds

C2_Witness ==
  /\ status = "dup"
  /\ cur.id \in startIds
  /\ pc = "done"
  /\ Len(tweets) = 2

\* C3: for a tweet with a video and a successful translation, a failed video
\* download or a failing post_video_to_fb is followed by post_text_only_to_fb
\* with the same caption, whose result is the tweet's final status.
C3_VideoFallsBackToText ==
  LET videoFailed == dlCalls = 1 /\ (calls = <<>> \/ calls[1].ret # "true")
      last == calls[Len(calls)]
  IN (cur.video /\ Finished /\ videoFailed) =>
       /\ calls # <<>>
       /\ last.op = "text"
       /\ last.caption = translated
       /\ (status = "published") = (last.ret = "true")
       /\ status \in {"published", "failed"}

\* C4: no failure on one tweet (translation, download, publish) aborts the
\* run: the run goes on to the later tweets and to its final commit step.
C4_RunNeverAborted == pc # "aborted"

\* C5: every temp media file created for a tweet, also one whose write failed
\* partway, is removed before the next tweet is taken.
C5_TempFilesRemoved == pc \in {"loop", "done", "aborted"} => disk = {}

\* C6: the ledger is append-only: when log_result has completed, every entry
\* stored before is still stored, unchanged and in place, also when the
\* existing file could not be read at commit time.
C6_LedgerAppendOnly ==
  [][pc' = "done" => IsPrefix(file.entries, file'.entries)]_vars

\* C7: the commit is atomic: when log_result is interrupted, the ledger holds
\* either exactly the old entries or the old entries followed by all new ones.
C7_CommitAtomic ==
  [][pc' = "crashed" =>
       (file' = file \/ file' = OkFile(file.entries \o results))]_vars

\* C8: translate_to_malay on non-blank text makes exactly 3 service calls when
\* every attempt fails and then returns "Translation failed"; a non-empty
\* reply at attempt k is returned and no later call is made.
C8_TranslateRetryBound ==
  LET n == Len(attempts)
      failed(k) == attempts[k] \in {"empty", "raise"}
  IN /\ n <= 3
     /\ \A k \in 1..(n - 1) : failed(k)
     /\ translated = FailureMarker => n = 3 /\ failed(3)
     /\ (n = 3 /\ failed(3) /\ pc # "translate") => translated = FailureMarker
     /\ (n >= 1 /\ attempts[n] = "text") =>
          translated = ServiceText(CleanText(cur.raw_text))
     /\ (n >= 1 /\ translated \notin {Pending, FailureMarker}) => attempts[n] = "text"

C8_Witness ==
  /\ translated = FailureMarker
  /\ attempts = <<"raise", "empty", "raise">>
  /\ status = "trfail"

\* C9: a staged ledger entry records the media attached to the published
\* post: the photos staged by post_photos_to_fb, the video only for a video
\* post, nothing for a text-only post.
UrlsOf(tweet, attached) ==
  [k \in 1..Len(attached) |-> tweet.images[attached[k][3] + 1]]

C9_EntryRecordsAttachedMedia ==
  (status = "published" /\ pc = "finally") =>
     LET e == results[Len(results)]
         c == calls[Len(calls)]
     IN /\ e.video = (c.op = "video")
        /\ e.images = IF c.op = "photos" THEN UrlsOf(cur, c.attached) ELSE <<>>

\* C10: a tweet whose translation is the failure marker or empty gets no media
\* download and no publish call and stages no entry; it ends as
\* Skipped(translation-failed) and the loop moves to the next tweet.
C10_Skipped ==
  translated \in {<<>>, FailureMarker} =>
    /\ status = "trfail"
    /\ dlCalls = 0
    /\ calls = <<>>
    /\ pc \in {"loop", "done"}
    /\ idx >= 2 /\ tweets[idx - 1] = cur

C10_NothingStaged ==
  (translated = Pending /\ translated' \in {<<>>, FailureMarker}) =>
    /\ results' = results
    /\ disk' = disk
    /\ pubCount' = pubCount
    /\ idx' = idx + 1

C10_RejectedTranslationSkips == [](C10_Skipped) /\ [][C10_NothingStaged]_vars

C10_Witness ==
  /\ translated = FailureMarker
  /\ status = "trfail"
  /\ pc = "loop"
  /\ idx <= Len(tweets)

\* C11: a text that is blank once mentions and URLs are stripped and the
\* whitespace is collapsed gets the empty result and no service call.
C11_BlankAfterCleaningNoCall ==
  (status # "none" /\ IsBlankInput(CleanText(cur.raw_text))) =>
     /\ attempts = <<>>
     /\ translated \in {Pending, <<>>}

\* C12: in one translate_to_malay call every failed attempt that is followed
\* by another attempt, whatever its kind, is followed by a backoff sleep
\* first, and the sleeps (1.5 ** attempt number) are strictly increasing.
C12_BackoffEveryRetry ==
  /\ \A k \in 1..(Len(attempts) - 1) : \E j \in 1..Len(delays) : delays[j] = k
  /\ \A j \in 1..(Len(delays) - 1) : delays[j] < delays[j + 1]

\* C13: the first publish strategy follows a fixed priority: video if the
\* tweet has one (its images are then never downloaded), else photos if it
\* has an image, else text; no video or photo operation without that media.
C13_StrategyByPriority ==
  Finished =>
    /\ cur.video =>
         /\ video_path = VideoFile(cur.id)
         /\ img_paths = <<>>
         /\ Len(dlLog) = 1
         /\ \A j \in 1..Len(cur.images) : ImageFile(cur.id, j - 1) \notin disk
         /\ calls # <<>> => calls[1].op = "video"
    /\ (~cur.video /\ cur.images # <<>>) =>
         /\ video_path = NoPath
         /\ Len(dlLog) = Len(cur.images)
         /\ calls # <<>> /\ calls[1].op # "video"
         /\ img_paths # <<>> => calls[1].op = "photos"
    /\ (~cur.video /\ cur.images = <<>>) =>
         /\ video_path = NoPath
         /\ img_paths = <<>>
         /\ dlLog = <<>>
         /\ calls # <<>> /\ calls[1].op = "text"
    /\ \A k \in 1..Len(calls) :
         /\ calls[k].op = "video" => cur.video
         /\ calls[k].op = "photos" => cur.images # <<>>

C13_Witness ==
  /\ status = "published"
  /\ cur.video
  /\ cur.images # <<>>
  /\ calls # <<>>
  /\ calls[1].op = "video"

\* C14: on the photos path every image is downloaded whatever happened to
\* the others; post_photos_to_fb gets exactly the downloaded images in their
\* order; when none was downloaded post_text_only_to_fb is called with the
\* translated caption and post_photos_to_fb is not.
C14_PhotosPath ==
  LET n == Len(cur.images)
      ok == SelectSeq([j \in 1..n |-> j], LAMBDA j : dlLog[j] = "ok")
      expected == [k \in 1..Len(ok) |-> ImageFile(cur.id, ok[k] - 1)]
  IN (Finished /\ ~cur.video /\ cur.images # <<>>) =>
       /\ Len(dlLog) = n
       /\ Len(calls) = 1
       /\ calls[1].caption = translated
       /\ IF expected # <<>>
          THEN calls[1].op = "photos" /\ calls[1].paths = expected
          ELSE calls[1].op = "text"

C14_Witness ==
  /\ status = "published"
  /\ Len(cur.images) = 2
  /\ dlLog = <<"http_error", "ok">>
  /\ calls[1].op = "photos"

\* C15: post_photos_to_fb uploads the photos one after another, unpublished;
\* a failed upload is skipped and does not fail the operation; with nothing
\* staged it returns false and makes no feed post; otherwise it makes exactly
\* one feed post with all staged photos and the caption and returns the
\* success of that post.
C15_PhotosOperation ==
  \A k \in 1..Len(calls) :
    LET c == calls[k]
        ups == SelectSeq(c.reqs, LAMBDA r : r.ep = "photos")
        feeds == SelectSeq(c.reqs, LAMBDA r : r.ep = "feed")
        good == SelectSeq(ups, LAMBDA r : r.out = "200")
        staged == [i \in 1..Len(good) |-> good[i].media[1]]
    IN (c.op = "photos" /\ c.reqs # <<>>) =>
         /\ c.ret \in {"true", "false"}
         /\ [i \in 1..Len(ups) |-> ups[i].media[1]] = c.paths
         /\ c.reqs = ups \o feeds
         /\ staged = <<>> => (feeds = <<>> /\ c.ret = "false")
         /\ staged # <<>> =>
              /\ Len(feeds) = 1
              /\ feeds[1].media = staged
              /\ feeds[1].caption = c.caption
              /\ (c.ret = "true") = (feeds[1].out = "200")

\* the same, for the operations in which no request raised
C15_ExceptRaise ==
  (\A k \in 1..Len(calls) : calls[k].ret # "raise") => C15_PhotosOperation

EntryIdSeq(es) == [k \in 1..Len(es) |-> es[k].id]

\* C16: results.json is written at most once per run, after the last tweet:
\* a run that ends with k >= 1 published tweets appends exactly their k entries
\* in processing order and reports k; a run that published nothing leaves
\* the file alone and reports that there is nothing to post.
C16_Step ==
  /\ file' # file =>
       /\ pc = "loop" /\ idx > Len(tweets) /\ pc' = "done"
       /\ pubRun # <<>>
       /\ file'.state = "ok"
       /\ file'.entries = file.entries \o results
       /\ EntryIdSeq(results) = pubRun
  /\ (pc # "done" /\ pc' = "done") =>
       IF pubRun = <<>>
       THEN file' = file /\ report' = 0
       ELSE file' # file /\ report' = Len(pubRun)

C16_BatchCommit == [][C16_Step]_vars

C16_Witness ==
  /\ pc = "done"
  /\ report = 2
  /\ Len(file.entries) = 3
  /\ pubRun = <<3, 2>>

\* C17: an entry is staged for a tweet exactly when the last publish operation
\* attempted for it returned success; a tweet whose attempts all failed is
\* not in the ledger afterwards, so the next run attempts it again.
C17_Step ==
  /\ (pc = "process" /\ pc' = "finally") =>
       IF calls' # <<>> /\ calls'[Len(calls')].ret = "true"
       THEN /\ Len(results') = Len(results) + 1
            /\ SubSeq(results', 1, Len(results)) = results
            /\ results'[Len(results')].id = cur.id
       ELSE results' = results
  /\ (pc # "process" /\ results' # results) => (results' = <<>> /\ pc' = "loop")

C17_NotLogged ==
  (pc = "done" /\ status = "failed" /\ \A k \in 1..Len(pubRun) : pubRun[k] # cur.id) =>
     /\ cur.id \notin EntryIds(file.entries)
     /\ ~IsDuplicate(cur, LoadPostedIds(file))

C17_StagedIffPublished == [](C17_NotLogged) /\ [][C17_Step]_vars

C17_Witness ==
  /\ pc = "done"
  /\ status = "failed"
  /\ pubRun # <<>>
  /\ cur.id \notin EntryIds(file.entries)
  /\ calls # <<>>

\* C18: with results.json absent, unreadable or not a list of records the run
\* does not fail: load_posted_ids gives the empty set, every tweet counts as
\* not yet published, and the commit does not raise because of the ledger.
C18_LedgerNeverFatal ==
  /\ pc # "ledger_error"
  /\ (file.state # "ok" /\ pc \in {"loop", "translate", "process", "finally"}) =>
        posted_ids = {}

\* C19: starting from an empty ledger, results.json never holds two entries
\* with the same id, also when a fetcher output lists an id twice.
C19_NoDuplicateEntries ==
  \A i, j \in 1..Len(file.entries) :
     i # j => file.entries[i].id # file.entries[j].id

\* C20: every run terminates when every external call returns or raises: a
\* run over n tweets makes at most 3n translation service calls, takes each
\* position of the list at most once, and ends in its commit/report step or
\* with a raised error.
Running == pc \in {"loop", "translate", "process", "finally"}

\* service calls the run can still make: 3 for every tweet not yet taken,
\* and what is left of the 3 of the tweet being translated.  It is 3n when
\* the run starts, never negative, never grows, and every call lowers it.
CallBudget ==
  3 * (Len(tweets) - taken) + (IF pc = "translate" THEN 3 - Len(attempts) ELSE 0)

\* steps the run can still take, at most
Rank ==
  IF ~Running THEN 0
  ELSE 20 * (Len(tweets) + 1 - idx) +
       (CASE pc = "loop" -> 10
          [] pc = "translate" -> 9 - Len(attempts)
          [] pc = "process" -> 2
          [] pc = "finally" -> 1)

C20_Bounded ==
  /\ taken <= Len(tweets)
  /\ CallBudget >= 0
  /\ Running => (taken \in {idx - 1, idx} /\ idx <= Len(tweets) + 1)
  /\ Running => ENABLED RunStep

C20_Step ==
  /\ taken' = taken + 1 => (taken < Len(tweets) /\ cur' = tweets[taken + 1])
  /\ (Running /\ Len(attempts') = Len(attempts) + 1) => CallBudget' < CallBudget
  /\ Running => (CallBudget' <= CallBudget /\ Rank' < Rank)
  /\ (~Running /\ Running') => CallBudget' = 3 * Len(tweets')
  /\ (Running /\ ~Running') => pc' \in {"done", "aborted"}

C20_RunTerminates == [](C20_Bounded) /\ [][C20_Step]_vars

C20_Live == C20_RunTerminates /\ (Running ~> pc \in {"done", "aborted"})

C20_Witness ==
  /\ pc = "done"
  /\ Len(tweets) = 2
  /\ taken = 2
  /\ Len(attempts) = 3
  /\ status = "trfail"

====
